---- MODULE Spec2Model ----
(***************************************************************************)
(* gmail-stats (src/main.rs): a batch job that lists every message of a    *)
(* mailbox page by page, skips the ids already in seen_mails, fetches the  *)
(* others and counts them per normalized sender in senders, one SQLite     *)
(* transaction per message, the whole pass retried by main on error.       *)
(*                                                                         *)
(* Encodings.  Option<T>: None is <<>>, Some(x) is <<x>>.  A String is a   *)
(* tuple of one-character strings.  A page token is the index of the page  *)
(* it names.  A table with a primary key is a set (seen_mails) or a        *)
(* function from the key (senders).                                        *)
(***************************************************************************)
EXTENDS Integers, Sequences, FiniteSets, TLC

None == <<>>
Some(x) == <<x>>
IsSome(o) == o # <<>>
Unwrap(o) == o[1]

(***************************************************************************)
(* Bounds of the model.                                                    *)
(***************************************************************************)
MaxStubs == 3       \* stubs in the whole remote listing
MaxPageLen == 2     \* stubs the provider puts in one page
MaxAttempts == 5    \* calls of work followed within one run of the process
MaxHeaders == 3     \* headers of a message given to get_sender alone
MaxParts == 3       \* pieces of a raw header value given to cleanup_sender alone

(***************************************************************************)
(* Program constants.                                                      *)
(***************************************************************************)
RetryLimit == 3     \* if retries > 3 { panic! }
TldMin == 2         \* [\w-]{2,4}
TldMax == 4

(***************************************************************************)
(* Characters and the classes of EMAIL_RE_1 / EMAIL_RE_2.                  *)
(***************************************************************************)
WordChars == {"a", "b", "c", "o", "x", "J", "e", "_", "1"}
\* [\w\-\.]
LocalChars == WordChars \cup {"-", "."}
\* [\w-]
LabelChars == WordChars \cup {"-"}

Min(a, b) == IF a < b THEN a ELSE b

\* The length of the longest run of characters of cls that starts at
\* position i of s (0 when s[i] is not in cls or i is past the end): what a
\* greedy cls* consumes at i.
RECURSIVE RunLen(_, _, _)
RunLen(s, i, cls) ==
    IF i > Len(s) \/ s[i] \notin cls THEN 0 ELSE 1 + RunLen(s, i + 1, cls)

\* ([\w-]+\.)+ from position k: the positions that follow each "label."
\* repetition, the farthest (the greedy choice) first.  A label is a whole
\* run of label characters, since the dot that must follow is not one.
RECURSIVE LabelEnds(_, _)
LabelEnds(s, k) ==
    LET n == RunLen(s, k, LabelChars)
    IN  IF n >= 1 /\ k + n <= Len(s) /\ s[k + n] = "."
        THEN LabelEnds(s, k + n + 1) \o <<k + n + 1>>
        ELSE <<>>

\* The first position p of ends (in backtracking order) at which
\* [\w-]{2,4} matches, followed by the position after what it consumes
\* greedily; <<>> when it matches at none.
RECURSIVE TldMatch(_, _)
TldMatch(s, ends) ==
    IF ends = <<>> THEN <<>>
    ELSE LET t == RunLen(s, Head(ends), LabelChars)
         IN  IF t >= TldMin THEN <<Head(ends) + Min(t, TldMax)>>
             ELSE TldMatch(s, Tail(ends))

\* The group ([\w\-\.]+@([\w-]+\.)+[\w-]{2,4}) matched at position j: the
\* position after the match the regex engine prefers, or 0 when the group
\* does not match at j.
GroupEnd(s, j) ==
    LET n == RunLen(s, j, LocalChars)
    IN  IF n >= 1 /\ j + n <= Len(s) /\ s[j + n] = "@"
        THEN LET m == TldMatch(s, LabelEnds(s, j + n + 1))
             IN  IF m = <<>> THEN 0 ELSE m[1]
        ELSE 0

\* The length of the longest run of characters other than c that starts at
\* position i of s: what a greedy [^c]* consumes at i.
RECURSIVE RunLenNot(_, _, _)
RunLenNot(s, i, c) ==
    IF i > Len(s) \/ s[i] = c THEN 0 ELSE 1 + RunLenNot(s, i + 1, c)

\* Whether .*$ matches from position e: no line feed up to the end.
RestMatches(s, e) == e + RunLenNot(s, e, "\n") = Len(s) + 1

\* Capture 1 of the group followed by .*$ when the group starts at j.
GroupAt(s, j) ==
    LET e == GroupEnd(s, j)
    IN  IF e > 0 /\ RestMatches(s, e) THEN Some(SubSeq(s, j, e - 1)) ELSE None

\* Backtracking of the greedy [^<]*: the group is tried at j, j-1, ..., 1.
RECURSIVE GroupBefore(_, _)
GroupBefore(s, j) ==
    IF j < 1 THEN None
    ELSE IF IsSome(GroupAt(s, j)) THEN GroupAt(s, j)
    ELSE GroupBefore(s, j - 1)

\* EMAIL_RE_1 that looks for the address only right after the first "<"
EMAIL_RE_1_bracket_only(s) ==
    LET m == RunLenNot(s, 1, "<")
        c == IF m < Len(s) THEN GroupAt(s, m + 2) ELSE None
    IN  IF IsSome(c) THEN <<Unwrap(c)>> ELSE <<>>

\* EMAIL_RE_1.captures_iter(s): capture 1 of each match of
\* ^[^<]*<?(group).*$ .  The pattern is anchored, so there is at most one
\* match.  [^<]* first takes every character before the first "<", then <?
\* takes that "<"; when the group fails there the engine gives the "<"
\* back, then the characters of the prefix one by one.
EMAIL_RE_1(s) ==
    LET m == RunLenNot(s, 1, "<")
        c == IF m < Len(s) /\ IsSome(GroupAt(s, m + 2))
             THEN GroupAt(s, m + 2)
             ELSE GroupBefore(s, m + 1)
    IN  IF IsSome(c) THEN <<Unwrap(c)>> ELSE <<>>

\* EMAIL_RE_2.captures_iter(s): capture 1 of each match of ^(group)$ .
\* Only the farthest label end lets [\w-]{2,4} reach the end of s.
EMAIL_RE_2(s) ==
    LET n == RunLen(s, 1, LocalChars)
        ends == LabelEnds(s, n + 2)
        t == RunLen(s, Head(ends), LabelChars)
    IN  IF /\ n >= 1 /\ n + 1 <= Len(s) /\ s[n + 1] = "@"
           /\ ends # <<>>
           /\ t >= TldMin /\ t <= TldMax
           /\ Head(ends) + t = Len(s) + 1
        THEN <<s>> ELSE <<>>

Contains(s, c) == \E i \in 1..Len(s) : s[i] = c

\* for cap in captures { clean_sender = cap[1] }: the last capture wins.
LastOr(caps, dflt) == IF caps = <<>> THEN dflt ELSE caps[Len(caps)]

cleanup_sender(sender) ==
    IF Contains(sender, "<")
    THEN LastOr(EMAIL_RE_1(sender), sender)
    ELSE LastOr(EMAIL_RE_2(sender), sender)

(***************************************************************************)
(* get_sender: Ok(value) is [panic |-> FALSE, value |-> v]; the panic of   *)
(* expect("expected sender for mail") is [panic |-> TRUE].  A header is    *)
(* [name |-> Option<String>, value |-> Option<String>].                    *)
(***************************************************************************)
Ok(v) == [panic |-> FALSE, value |-> v]
Panic == [panic |-> TRUE, value |-> <<>>]

\* headers.iter().filter(|header| header.name == Some(n)).collect()
RECURSIVE Filter(_, _)
Filter(headers, n) ==
    IF headers = <<>> THEN <<>>
    ELSE IF Head(headers).name = Some(n)
         THEN <<Head(headers)>> \o Filter(Tail(headers), n)
         ELSE Filter(Tail(headers), n)

\* from_headers[0].value.as_ref().expect("expected sender for mail")
FirstValue(from_headers) ==
    IF IsSome(from_headers[1].value) THEN Ok(Unwrap(from_headers[1].value))
    ELSE Panic

\* get_sender taking the last header of the chosen name
get_sender_last(message) ==
    LET hs == message.headers
        Last(fs) == <<fs[Len(fs)]>>
    IN  IF Filter(hs, "From") # <<>> THEN FirstValue(Last(Filter(hs, "From")))
        ELSE IF Filter(hs, "FROM") # <<>>
             THEN FirstValue(Last(Filter(hs, "FROM")))
        ELSE IF Filter(hs, "Return-Path") # <<>>
             THEN FirstValue(Last(Filter(hs, "Return-Path")))
        ELSE Ok(<<>>)

\* get_sender treating a message without a sender header as an error
get_sender_strict(message) ==
    LET hs == message.headers
    IN  IF Filter(hs, "From") # <<>> THEN FirstValue(Filter(hs, "From"))
        ELSE IF Filter(hs, "FROM") # <<>> THEN FirstValue(Filter(hs, "FROM"))
        ELSE IF Filter(hs, "Return-Path") # <<>>
             THEN FirstValue(Filter(hs, "Return-Path"))
        ELSE Panic

get_sender(message) ==
    LET hs == message.headers
    IN  IF Filter(hs, "From") # <<>> THEN FirstValue(Filter(hs, "From"))
        ELSE IF Filter(hs, "FROM") # <<>> THEN FirstValue(Filter(hs, "FROM"))
        ELSE IF Filter(hs, "Return-Path") # <<>>
             THEN FirstValue(Filter(hs, "Return-Path"))
        ELSE Ok(<<>>)

(***************************************************************************)
(* The remote mailbox.  A message id is the index of the message in        *)
(* Mailbox; a stub of the listing is [id |-> Option<id>].                  *)
(***************************************************************************)
Header(n, v) == [name |-> Some(n), value |-> Some(v)]

AddrA == <<"a", "@", "x", ".", "c", "o">>
AddrB == <<"b", "@", "x", ".", "c", "o">>
NamedA == <<"J", " ", "<", "a", "@", "x", ".", "c", "o", ">">>

Mailbox ==
    << [headers |-> <<Header("To", AddrB), Header("From", AddrA)>>],
       [headers |-> <<Header("From", NamedA), Header("From", AddrB)>>],
       [headers |-> <<Header("To", AddrB)>>],
       [headers |-> <<[name |-> Some("From"), value |-> None]>>],
       [headers |-> <<>>] >>

Ids == 1..Len(Mailbox)
Stubs == {[id |-> Some(i)] : i \in Ids} \cup {[id |-> None]}

SeqsUpTo(S, n) == UNION {[1..k -> S] : k \in 0..n}

\* The provider cuts the listing into pages of at most n stubs.
RECURSIVE Paginate(_, _)
Paginate(s, n) ==
    IF Len(s) <= n THEN <<s>>
    ELSE <<SubSeq(s, 1, n)>> \o Paginate(SubSeq(s, n + 1, Len(s)), n)

Listings == {Paginate(s, n) : s \in SeqsUpTo(Stubs, MaxStubs), n \in 1..MaxPageLen}

VARIABLES
    listing,          \* the pages of the remote listing, fixed during a behaviour
    seen_mails,       \* table seen_mails, committed rows
    senders,          \* table senders, committed rows: sender -> mails_sent
    pc,               \* where the process is
    retries,          \* main: let retries = 0
    next_page_token,  \* work: next_page_token
    messages,         \* parse_messages: the stubs the for loop has not finished
    tx,               \* parse_messages: the open transaction's view of the tables
    message,          \* parse_messages: the fetched message
    attempts,         \* history: calls of work in this run
    requested,        \* history: page tokens of the listing calls answered in this attempt
    handed,           \* history: stubs the for loop has taken in this attempt
    interrupted,      \* history: ids whose transaction a crash cut after the fetch
    commits,          \* history: id -> committed transactions that processed it
    snap,             \* history: the tables when a pass first completed
    sender_value      \* increment_sender_mails: sender, when computed on its own

vars == <<listing, seen_mails, senders, pc, retries, next_page_token, messages,
          tx, message, attempts, requested, handed, interrupted, commits, snap,
          sender_value>>

stores == <<seen_mails, senders>>

Terminal == {"done", "panicked", "crashed"}
\* the awaited calls that return a Result
Awaits == {"list_first", "list_next", "begin", "seen_mail", "get", "mark_seen",
           "increment", "commit"}

(***************************************************************************)
(* The provider and the storage operations.                                *)
(***************************************************************************)
\* messages_list("me").page_token(token).doit(): the response's
\* (messages, next_page_token)
list_page(pages, token) ==
    LET k == IF IsSome(token) THEN Unwrap(token) ELSE 1
    IN  [messages |-> IF pages[k] = <<>> THEN None ELSE Some(pages[k]),
         next_page_token |-> IF k < Len(pages) THEN Some(k + 1) ELSE None]

\* messages_get("me", id).doit()
get_message(id) == [id |-> Some(id), headers |-> Mailbox[id].headers]

\* SELECT count(1) AS ct FROM seen_mails WHERE mail_id = ?  ... count > 0
seen_mail(message_id, rows) == Cardinality({r \in rows : r = message_id}) > 0

\* mark_seen that inserts nothing
mark_seen_noop(id, rows) == rows

\* INSERT INTO seen_mails (mail_id) VALUES (?)
mark_seen(id, rows) == rows \cup {id}

\* increment_sender_mails whose UPDATE has no WHERE clause
increment_sender_mails_no_where(sender, rows) ==
    IF sender \notin DOMAIN rows
    THEN [s \in DOMAIN rows \cup {sender} |-> IF s = sender THEN 1 ELSE rows[s]]
    ELSE LET count == rows[sender]
             mails_sent == IF count > 0 THEN count ELSE 0
         IN  [s \in DOMAIN rows |-> mails_sent + 1]

\* increment_sender_mails that writes 1 whether or not the row exists
increment_sender_mails_reset(sender, rows) ==
    [s \in DOMAIN rows \cup {sender} |-> IF s = sender THEN 1 ELSE rows[s]]

\* increment_sender_mails, the statements after the sender is known
increment_sender_mails(sender, rows) ==
    IF sender \notin DOMAIN rows
    THEN [s \in DOMAIN rows \cup {sender} |-> IF s = sender THEN 1 ELSE rows[s]]
    ELSE LET count == rows[sender]
             mails_sent == IF count > 0 THEN count ELSE 0
         IN  [rows EXCEPT ![sender] = mails_sent + 1]

\* work asking for the next page as soon as it has a token
AfterStubEager(rest, token) ==
    IF IsSome(token) THEN "list_next"
    ELSE IF rest # <<>> THEN "begin"
    ELSE "done"

\* work without the while let loop: only the first page is processed
AfterStubOnePage(rest, token) == IF rest # <<>> THEN "begin" ELSE "done"

\* where the process goes when the for loop has finished a stub (or the page
\* was empty): the next stub, the next page, or out of work with Ok
AfterStub(rest, token) ==
    IF rest # <<>> THEN "begin"
    ELSE IF IsSome(token) THEN "list_next"
    ELSE "done"

Init ==
    /\ listing \in Listings
    /\ seen_mails = {}
    /\ senders = <<>>
    /\ pc = "main_loop"
    /\ retries = 0
    /\ next_page_token = None
    /\ messages = <<>>
    /\ tx = None
    /\ message = None
    /\ attempts = 0
    /\ requested = <<>>
    /\ handed = <<>>
    /\ interrupted = {}
    /\ commits = [i \in Ids |-> 0]
    /\ snap = None
    /\ sender_value = None

\* MainLoop with line 71 in force: retries += 1 before the test
MainLoopCounting ==
    /\ pc = "main_loop"
    /\ attempts < MaxAttempts
    /\ retries' = retries + 1
    /\ IF retries' > RetryLimit
       THEN /\ pc' = "panicked"
            /\ UNCHANGED <<attempts, requested, handed>>
       ELSE /\ pc' = "list_first"
            /\ attempts' = attempts + 1
            /\ requested' = <<>>
            /\ handed' = <<>>
    /\ UNCHANGED <<sender_value, listing, seen_mails, senders,
                   next_page_token, messages, tx, message, interrupted, commits,
                   snap>>

\* main, lines 69-76: the head of the loop and the call of work.  retries is
\* never incremented (line 71 is commented out).
MainLoop ==
    /\ pc = "main_loop"
    /\ attempts < MaxAttempts
    /\ IF retries > RetryLimit
       THEN /\ pc' = "panicked"
            /\ UNCHANGED <<attempts, requested, handed>>
       ELSE /\ pc' = "list_first"
            /\ attempts' = attempts + 1
            /\ requested' = <<>>
            /\ handed' = <<>>
    /\ UNCHANGED <<sender_value, listing, seen_mails, senders, retries,
                   next_page_token, messages, tx, message, interrupted, commits,
                   snap>>

\* the tables a pass leaves when work returns Ok and main breaks
Completed(p, seen, counts) ==
    IF p # "done" THEN snap
    ELSE IF snap = None
    THEN Some([seen_mails |-> seen, senders |-> counts, again |-> FALSE])
    ELSE Some([Unwrap(snap) EXCEPT !.again = TRUE])

\* work, lines 89-99: the first listing call, without a page token
ListFirst ==
    /\ pc = "list_first"
    /\ LET result == list_page(listing, None)
           msgs == IF IsSome(result.messages) THEN Unwrap(result.messages) ELSE <<>>
       IN  /\ next_page_token' = result.next_page_token
           /\ messages' = msgs
           /\ requested' = Append(requested, None)
           /\ pc' = AfterStub(msgs, result.next_page_token)
    /\ snap' = Completed(pc', seen_mails, senders)
    /\ UNCHANGED <<sender_value, listing, seen_mails, senders, retries, tx, message, attempts,
                   handed, interrupted, commits>>

\* work, lines 101-112: a listing call with the token of the previous page
ListNext ==
    /\ pc = "list_next"
    /\ LET token == Unwrap(next_page_token)
           result == list_page(listing, Some(token))
           msgs == IF IsSome(result.messages) THEN Unwrap(result.messages) ELSE <<>>
       IN  /\ next_page_token' = result.next_page_token
           /\ messages' = msgs
           /\ requested' = Append(requested, Some(token))
           /\ pc' = AfterStub(msgs, result.next_page_token)
    /\ snap' = Completed(pc', seen_mails, senders)
    /\ UNCHANGED <<sender_value, listing, seen_mails, senders, retries, tx, message, attempts,
                   handed, interrupted, commits>>

\* parse_messages, lines 126-131: the for loop takes a stub; pool.begin()
Begin ==
    /\ pc = "begin"
    /\ handed' = Append(handed, Head(messages))
    /\ tx' = Some([seen_mails |-> seen_mails, senders |-> senders])
    /\ message' = None
    /\ pc' = "seen_mail"
    /\ UNCHANGED <<sender_value, listing, seen_mails, senders, retries, next_page_token,
                   messages, attempts, requested, interrupted, commits, snap>>

\* SeenMail returning Err for a stub without id
SeenMailMissingIdErr ==
    /\ pc = "seen_mail"
    /\ LET message_meta == Head(messages)
       IN  IF ~IsSome(message_meta.id)
           THEN pc' = "main_loop" /\ tx' = None
           ELSE IF seen_mail(Unwrap(message_meta.id), Unwrap(tx).seen_mails)
           THEN pc' = "commit" /\ tx' = tx
           ELSE pc' = "get" /\ tx' = tx
    /\ UNCHANGED <<sender_value, listing, seen_mails, senders, retries,
                   next_page_token, messages, message, attempts, requested,
                   handed, interrupted, commits, snap>>

\* SeenMail with the test on seen_mail dropped: every stub is fetched
SeenMailAlwaysFetch ==
    /\ pc = "seen_mail"
    /\ LET message_meta == Head(messages)
       IN  IF ~IsSome(message_meta.id)
           THEN pc' = "panicked" /\ tx' = None
           ELSE pc' = "get" /\ tx' = tx
    /\ UNCHANGED <<sender_value, listing, seen_mails, senders, retries,
                   next_page_token, messages, message, attempts, requested,
                   handed, interrupted, commits, snap>>

\* parse_messages, lines 132-137: expect("message missing id"), seen_mail
SeenMail ==
    /\ pc = "seen_mail"
    /\ LET message_meta == Head(messages)
       IN  IF ~IsSome(message_meta.id)
           THEN pc' = "panicked" /\ tx' = None
           ELSE IF seen_mail(Unwrap(message_meta.id), Unwrap(tx).seen_mails)
           THEN pc' = "commit" /\ tx' = tx
           ELSE pc' = "get" /\ tx' = tx
    /\ UNCHANGED <<sender_value, listing, seen_mails, senders, retries, next_page_token,
                   messages, message, attempts, requested, handed, interrupted,
                   commits, snap>>

\* parse_messages, lines 138-144: messages_get
Get ==
    /\ pc = "get"
    /\ message' = Some(get_message(Unwrap(Head(messages).id)))
    /\ pc' = "mark_seen"
    /\ UNCHANGED <<sender_value, listing, seen_mails, senders, retries, next_page_token,
                   messages, tx, attempts, requested, handed, interrupted,
                   commits, snap>>

\* MarkSeen given the pool instead of the transaction: the row is durable
\* at once
MarkSeenOnPool ==
    /\ pc = "mark_seen"
    /\ LET m == Unwrap(message)
           t == Unwrap(tx)
       IN  IF ~IsSome(m.id)
           THEN /\ pc' = "panicked" /\ tx' = None /\ message' = message
                /\ seen_mails' = seen_mails
           ELSE IF Unwrap(m.id) \in t.seen_mails
           THEN /\ pc' = "main_loop" /\ tx' = None /\ message' = None
                /\ seen_mails' = seen_mails
           ELSE /\ tx' = Some([t EXCEPT !.seen_mails = mark_seen(Unwrap(m.id), @)])
                /\ seen_mails' = mark_seen(Unwrap(m.id), seen_mails)
                /\ pc' = "increment"
                /\ message' = message
    /\ UNCHANGED <<sender_value, listing, senders, retries, next_page_token,
                   messages, attempts, requested, handed, interrupted, commits,
                   snap>>

\* parse_messages, line 158: mark_seen in the transaction; the insert of an
\* id the table holds violates the primary key and returns Err
MarkSeen ==
    /\ pc = "mark_seen"
    /\ LET m == Unwrap(message)
           t == Unwrap(tx)
       IN  IF ~IsSome(m.id)
           THEN pc' = "panicked" /\ tx' = None /\ message' = message
           ELSE IF Unwrap(m.id) \in t.seen_mails
           THEN pc' = "main_loop" /\ tx' = None /\ message' = None
           ELSE /\ tx' = Some([t EXCEPT !.seen_mails = mark_seen(Unwrap(m.id), @)])
                /\ pc' = "increment"
                /\ message' = message
    /\ UNCHANGED <<sender_value, listing, seen_mails, senders, retries, next_page_token,
                   messages, attempts, requested, handed, interrupted, commits,
                   snap>>

\* Increment given the pool instead of the transaction: the count is
\* durable at once
IncrementOnPool ==
    /\ pc = "increment"
    /\ LET t == Unwrap(tx)
           got == get_sender(Unwrap(message))
       IN  IF got.panic
           THEN pc' = "panicked" /\ tx' = None /\ senders' = senders
           ELSE /\ tx' = Some([t EXCEPT !.senders =
                               increment_sender_mails(cleanup_sender(got.value), @)])
                /\ senders' = increment_sender_mails(cleanup_sender(got.value),
                                                     senders)
                /\ pc' = "commit"
    /\ UNCHANGED <<sender_value, listing, seen_mails, retries, next_page_token,
                   messages, message, attempts, requested, handed, interrupted,
                   commits, snap>>

\* parse_messages, line 159: increment_sender_mails in the transaction
Increment ==
    /\ pc = "increment"
    /\ LET t == Unwrap(tx)
           got == get_sender(Unwrap(message))
       IN  IF got.panic
           THEN pc' = "panicked" /\ tx' = None
           ELSE /\ tx' = Some([t EXCEPT !.senders =
                               increment_sender_mails(cleanup_sender(got.value), @)])
                /\ pc' = "commit"
    /\ UNCHANGED <<sender_value, listing, seen_mails, senders, retries, next_page_token,
                   messages, message, attempts, requested, handed, interrupted,
                   commits, snap>>

\* parse_messages, line 161: tx.commit(), then the next stub, the next page
\* or the return of Ok to main, which breaks out of its loop
Commit ==
    /\ pc = "commit"
    /\ seen_mails' = Unwrap(tx).seen_mails
    /\ senders' = Unwrap(tx).senders
    /\ tx' = None
    /\ commits' = IF IsSome(message)
                  THEN [commits EXCEPT ![Unwrap(Unwrap(message).id)] = @ + 1]
                  ELSE commits
    /\ message' = None
    /\ messages' = Tail(messages)
    /\ pc' = AfterStub(Tail(messages), next_page_token)
    /\ snap' = Completed(pc', seen_mails', senders')
    /\ UNCHANGED <<sender_value, listing, retries, next_page_token, attempts, requested,
                   handed, interrupted>>

\* An awaited call is pending: at seen_mail and at increment_sender_mails
\* only when the expect that runs before the query has not panicked.
CanFail ==
    /\ pc \in Awaits
    /\ pc = "seen_mail" => IsSome(Head(messages).id)
    /\ pc = "increment" => ~get_sender(Unwrap(message)).panic

\* Fail that keeps the page token and goes on from the page it was at
FailResumes ==
    /\ CanFail
    /\ pc' = IF IsSome(next_page_token) THEN "list_next" ELSE "main_loop"
    /\ tx' = None
    /\ message' = None
    /\ messages' = <<>>
    /\ requested' = <<>>
    /\ handed' = <<>>
    /\ UNCHANGED <<sender_value, listing, seen_mails, senders, retries,
                   next_page_token, attempts, interrupted, commits, snap>>

\* Fail that gives up the stub alone: the transaction is rolled back and
\* the for loop goes on
FailSkipsStub ==
    /\ CanFail
    /\ tx' = None
    /\ message' = None
    /\ IF pc \in {"seen_mail", "get", "mark_seen", "increment", "commit"}
       THEN /\ messages' = Tail(messages)
            /\ pc' = IF Tail(messages) # <<>> THEN "begin"
                     ELSE IF IsSome(next_page_token) THEN "list_next"
                     ELSE "done"
            /\ UNCHANGED <<next_page_token, requested, handed>>
       ELSE /\ pc' = "main_loop"
            /\ messages' = <<>>
            /\ next_page_token' = None
            /\ requested' = <<>>
            /\ handed' = <<>>
    /\ UNCHANGED <<sender_value, listing, seen_mails, senders, retries,
                   attempts, interrupted, commits, snap>>

\* Fail with a transaction that commits when it is dropped
FailCommits ==
    /\ CanFail
    /\ pc' = "main_loop"
    /\ seen_mails' = IF IsSome(tx) THEN Unwrap(tx).seen_mails ELSE seen_mails
    /\ senders' = IF IsSome(tx) THEN Unwrap(tx).senders ELSE senders
    /\ tx' = None
    /\ message' = None
    /\ messages' = <<>>
    /\ next_page_token' = None
    /\ requested' = <<>>
    /\ handed' = <<>>
    /\ UNCHANGED <<sender_value, listing, retries, attempts, interrupted,
                   commits, snap>>

\* An awaited call returns Err: ? returns it up to main (the transaction is
\* dropped, which rolls it back), main prints it and loops (lines 77-82).
Fail ==
    /\ CanFail
    /\ pc' = "main_loop"
    /\ tx' = None
    /\ message' = None
    /\ messages' = <<>>
    /\ next_page_token' = None
    /\ requested' = <<>>
    /\ handed' = <<>>
    /\ UNCHANGED <<sender_value, listing, seen_mails, senders, retries, attempts, interrupted,
                   commits, snap>>

\* The process is killed: only the committed rows survive.
Crash ==
    /\ pc \notin Terminal
    /\ pc' = "crashed"
    /\ interrupted' = IF IsSome(message) /\ IsSome(tx)
                      THEN interrupted \cup {Unwrap(Unwrap(message).id)}
                      ELSE interrupted
    /\ tx' = None
    /\ message' = None
    /\ messages' = <<>>
    /\ next_page_token' = None
    /\ requested' = <<>>
    /\ handed' = <<>>
    /\ UNCHANGED <<sender_value, listing, seen_mails, senders, retries, attempts, commits, snap>>

\* The job is run again against the same mailbox and the same database.
Restart ==
    /\ pc \in Terminal
    /\ pc' = "main_loop"
    /\ retries' = 0
    /\ next_page_token' = None
    /\ messages' = <<>>
    /\ tx' = None
    /\ message' = None
    /\ attempts' = 0
    /\ requested' = <<>>
    /\ handed' = <<>>
    /\ interrupted' = IF pc = "done" THEN {} ELSE interrupted
    /\ UNCHANGED <<sender_value, listing, seen_mails, senders, commits, snap>>

Next ==
    \/ MainLoop
    \/ ListFirst
    \/ ListNext
    \/ Begin
    \/ SeenMail
    \/ Get
    \/ MarkSeen
    \/ Increment
    \/ Commit
    \/ Fail
    \/ Crash
    \/ Restart

Spec == Init /\ [][Next]_vars

\* One run that is not killed and in which only finitely many awaited calls
\* return Err: a call fails only while the run has an attempt left.
FailFinitely == attempts < MaxAttempts /\ Fail

NextRun ==
    \/ MainLoop
    \/ ListFirst
    \/ ListNext
    \/ Begin
    \/ SeenMail
    \/ Get
    \/ MarkSeen
    \/ Increment
    \/ Commit
    \/ FailFinitely

\* the steps of a run other than Increment
RunOther ==
    \/ MainLoop
    \/ ListFirst
    \/ ListNext
    \/ Begin
    \/ SeenMail
    \/ Get
    \/ MarkSeen
    \/ Commit
    \/ FailFinitely

\* The runtime keeps driving main's future: a step that stays possible is
\* eventually taken.  Increment is possible exactly when pc = "increment"
\* and every step from there leaves it, so WF_vars(Increment) is the same
\* as []<>(pc # "increment"), which is how it is written here.
SpecRun ==
    /\ Init
    /\ [][NextRun]_vars
    /\ WF_vars(RunOther)
    /\ []<>(pc # "increment")

(***************************************************************************)
(* get_sender and cleanup_sender on their own: increment_sender_mails,     *)
(* line 201, applied to a message with any list of at most MaxHeaders      *)
(* headers.                                                                *)
(***************************************************************************)
HeaderNames == {Some("From"), Some("FROM"), Some("Return-Path"), Some("To"), None}
HeaderValues == {Some(AddrA), Some(AddrB), Some(NamedA), None}
Headers == [name : HeaderNames, value : HeaderValues]
HeaderLists == SeqsUpTo(Headers, MaxHeaders)

SenderInit ==
    /\ message \in {Some([id |-> Some(1), headers |-> hs]) : hs \in HeaderLists}
    /\ pc = "get_sender"
    /\ sender_value = None
    /\ listing = <<<<>>>>
    /\ seen_mails = {}
    /\ senders = <<>>
    /\ retries = 0
    /\ next_page_token = None
    /\ messages = <<>>
    /\ tx = None
    /\ attempts = 0
    /\ requested = <<>>
    /\ handed = <<>>
    /\ interrupted = {}
    /\ commits = [i \in Ids |-> 0]
    /\ snap = None

\* line 201, get_sender(message)?
SenderGet ==
    /\ pc = "get_sender"
    /\ LET got == get_sender(Unwrap(message))
       IN  IF got.panic
           THEN pc' = "panicked" /\ sender_value' = None
           ELSE pc' = "cleanup_sender" /\ sender_value' = Some(got.value)
    /\ UNCHANGED <<listing, seen_mails, senders, retries, next_page_token,
                   messages, tx, message, attempts, requested, handed,
                   interrupted, commits, snap>>

\* line 201, cleanup_sender(...)
SenderCleanup ==
    /\ pc = "cleanup_sender"
    /\ sender_value' = Some(cleanup_sender(Unwrap(sender_value)))
    /\ pc' = "sender_done"
    /\ UNCHANGED <<listing, seen_mails, senders, retries, next_page_token,
                   messages, tx, message, attempts, requested, handed,
                   interrupted, commits, snap>>

SenderNext == SenderGet \/ SenderCleanup

SpecSender == SenderInit /\ [][SenderNext]_vars

(***************************************************************************)
(* The same two steps for a message whose only header is a From with any   *)
(* raw value made of at most MaxParts pieces.                              *)
(***************************************************************************)
Parts == {AddrA, NamedA, <<"<">>, <<">">>, <<" ">>, <<"J">>, <<".">>, <<"@">>,
          <<"c", "o", "x">>, <<"\n">>}

RECURSIVE Concat(_)
Concat(ps) == IF ps = <<>> THEN <<>> ELSE Head(ps) \o Concat(Tail(ps))

RawValues == {Concat(ps) : ps \in SeqsUpTo(Parts, MaxParts)}

CleanupInit ==
    /\ message \in {Some([id |-> Some(1), headers |-> <<Header("From", raw)>>]) :
                       raw \in RawValues}
    /\ pc = "get_sender"
    /\ sender_value = None
    /\ listing = <<<<>>>>
    /\ seen_mails = {}
    /\ senders = <<>>
    /\ retries = 0
    /\ next_page_token = None
    /\ messages = <<>>
    /\ tx = None
    /\ attempts = 0
    /\ requested = <<>>
    /\ handed = <<>>
    /\ interrupted = {}
    /\ commits = [i \in Ids |-> 0]
    /\ snap = None

SpecCleanup == CleanupInit /\ [][SenderNext]_vars

(***************************************************************************)
(* What the claims speak of.                                               *)
(***************************************************************************)
RECURSIVE Flatten(_)
Flatten(pages) == IF pages = <<>> THEN <<>> ELSE Head(pages) \o Flatten(Tail(pages))

\* the ids the remote listing lists
ListedIds ==
    LET all == Flatten(listing)
    IN  {Unwrap(all[k].id) : k \in {j \in 1..Len(all) : IsSome(all[j].id)}}

\* the normalized sender of the message with id i
SenderOf(i) == cleanup_sender(get_sender(get_message(i)).value)

\* mails_sent of sender s, 0 when senders has no row for s
CountOf(rows, s) == IF s \in DOMAIN rows THEN rows[s] ELSE 0

\* the ids of a set whose normalized sender is s
From(ids, s) == {i \in ids : SenderOf(i) = s}

\* the current step is the commit (not the failure) of a transaction
Commits == pc = "commit" /\ pc' \notin {"main_loop", "crashed"}

\* C1: in every committed state of the tables, also the one a crash or an
\* error inside parse_messages leaves, the ids of seen_mails are exactly
\* the messages whose increment is in senders: each sender's mails_sent is
\* the number of seen ids of that sender.
C1_Atomicity ==
    \A s \in DOMAIN senders \cup {SenderOf(i) : i \in seen_mails} :
        CountOf(senders, s) = Cardinality(From(seen_mails, s))

\* a crash cut a transaction after its fetch, with earlier messages committed
C1_Witness == pc = "crashed" /\ interrupted # {} /\ seen_mails # {}

\* C2: once a pass has completed, a later pass against the same listing
\* leaves seen_mails and senders as the first pass left them.
C2_Idempotent ==
    IsSome(snap) =>
        /\ seen_mails = Unwrap(snap).seen_mails
        /\ senders = Unwrap(snap).senders

\* a second pass has completed over at least two processed messages
C2_Witness ==
    /\ pc = "done"
    /\ IsSome(snap)
    /\ Unwrap(snap).again
    /\ Cardinality(seen_mails) >= 2

\* C3: work is called at most 4 times in a run (the first attempt and 3
\* retries).
C3_BoundedRetry == attempts <= RetryLimit + 1

\* C4: when a pass has completed on tables that were empty at first,
\* senders holds exactly one row per normalized sender of a listed id, with
\* the number of distinct listed ids of that sender.
C4_CountCorrect ==
    pc = "done" =>
        /\ DOMAIN senders = {SenderOf(i) : i \in ListedIds}
        /\ \A s \in DOMAIN senders :
               senders[s] = Cardinality(From(ListedIds, s)) /\ senders[s] >= 1

\* a pass completed with two rows, one of them counting two messages
C4_Witness ==
    /\ pc = "done"
    /\ Cardinality(DOMAIN senders) >= 2
    /\ \E s \in DOMAIN senders : senders[s] >= 2

\* C5: in a pass that completes, the listing calls are the token-less one
\* followed by one call per token returned, each with the token of the
\* response before it, up to the response without a token, and the stubs
\* handed to the for loop are the stubs of all pages in order, each once.
C5_Pagination ==
    pc = "done" =>
        /\ Len(requested) >= 1
        /\ requested[1] = None
        /\ \A k \in 2..Len(requested) :
               requested[k] = list_page(listing, requested[k - 1]).next_page_token
        /\ \A k \in 2..Len(requested) : IsSome(requested[k])
        /\ \A j, k \in 1..Len(requested) : j # k => requested[j] # requested[k]
        /\ list_page(listing, requested[Len(requested)]).next_page_token = None
        /\ Len(requested) = Len(listing)
        /\ handed = Flatten(listing)

\* a pass completed over three pages
C5_Witness == pc = "done" /\ Len(requested) >= 3 /\ Len(handed) >= 3

\* C6: when the id of the stub is in seen_mails at the check, the process
\* does not go on to messages_get, and until the stub is finished neither
\* seen_mails nor senders changes, in the tables or in the transaction.
C6_DedupFastPath ==
    [][/\ (/\ pc = "seen_mail"
           /\ IsSome(Head(messages).id)
           /\ Unwrap(Head(messages).id) \in seen_mails)
          => /\ pc' \in {"commit", "main_loop", "crashed"}
             /\ message' = None
             /\ tx' \in {tx, None}
             /\ UNCHANGED stores
       /\ (pc = "commit" /\ message = None)
          => /\ UNCHANGED stores
             /\ Unwrap(tx) = [seen_mails |-> seen_mails, senders |-> senders]
      ]_vars

\* a seen stub is at its commit without a fetched message
C6_Witness ==
    /\ pc = "commit"
    /\ message = None
    /\ Unwrap(Head(messages).id) \in seen_mails
    /\ senders # <<>>

\* C7: when a crash has cut the transaction of a message after its fetch
\* and a later run completes, the message is in seen_mails, exactly one
\* committed transaction has processed it and its sender's count holds it
\* once.
C7_CrashRecovery ==
    pc = "done" =>
        \A i \in interrupted :
            /\ i \in seen_mails
            /\ commits[i] = 1
            /\ CountOf(senders, SenderOf(i))
                   = Cardinality(From(seen_mails, SenderOf(i)))

\* a run completed after a crash that cut a message's transaction
C7_Witness == pc = "done" /\ interrupted # {}

\* C8: has_seen(M.id) is false until the transaction that processes M
\* commits and true from then on; no other step (the skip, the failure or
\* the processing of another message, a crash) changes it.
C8_HasSeen ==
    [][\A i \in Ids :
          LET processed == /\ Commits
                           /\ IsSome(message)
                           /\ Unwrap(message).id = Some(i)
          IN  /\ processed => i \notin seen_mails
              /\ (i \in seen_mails') <=> (i \in seen_mails \/ processed)
      ]_vars

\* an attempt failed after it had processed some messages but not all
C8_Witness ==
    /\ pc = "main_loop"
    /\ attempts >= 1
    /\ seen_mails # {}
    /\ ListedIds \ seen_mails # {}

\* the header get_sender is to choose: the first named From, else the
\* first named FROM, else the first named Return-Path; 0 when there is none
FirstNamed(hs, n) ==
    IF \E k \in 1..Len(hs) : hs[k].name = Some(n)
    THEN CHOOSE k \in 1..Len(hs) :
             /\ hs[k].name = Some(n)
             /\ \A j \in 1..(k - 1) : hs[j].name # Some(n)
    ELSE 0

Chosen(hs) ==
    IF FirstNamed(hs, "From") > 0 THEN FirstNamed(hs, "From")
    ELSE IF FirstNamed(hs, "FROM") > 0 THEN FirstNamed(hs, "FROM")
    ELSE FirstNamed(hs, "Return-Path")

\* C9 as stated: for every header list get_sender returns the value of the
\* chosen header, or the empty string when there is none.
C9_AlwaysReturns ==
    pc \in {"cleanup_sender", "panicked"} =>
        LET hs == Unwrap(message).headers
        IN  /\ pc = "cleanup_sender"
            /\ sender_value = IF Chosen(hs) = 0 THEN Some(<<>>)
                              ELSE hs[Chosen(hs)].value

\* C9 amended: get_sender returns the value of the chosen header when that
\* header has a value and the empty string when no header is chosen; when
\* the chosen header has no value it panics, and in no other case.
C9_HeaderPriority ==
    pc \in {"cleanup_sender", "panicked"} =>
        LET hs == Unwrap(message).headers
            k == Chosen(hs)
        IN  IF k = 0 THEN pc = "cleanup_sender" /\ sender_value = Some(<<>>)
            ELSE IF IsSome(hs[k].value)
                 THEN pc = "cleanup_sender" /\ sender_value = hs[k].value
            ELSE pc = "panicked"

\* get_sender returned the first From of two, with a FROM before them
C9_Witness ==
    /\ pc = "cleanup_sender"
    /\ LET hs == Unwrap(message).headers
       IN  /\ Len(hs) = 3
           /\ hs[1].name = Some("FROM")
           /\ hs[2].name = Some("From")
           /\ hs[3].name = Some("From")
           /\ hs[2].value # hs[3].value
           /\ hs[1].value # hs[2].value
           /\ sender_value = hs[2].value

NoSenderHeader(m) ==
    \A k \in 1..Len(m.headers) :
        m.headers[k].name \notin {Some("From"), Some("FROM"), Some("Return-Path")}

\* rows with the count of s raised by one, the row created at 1 if absent
Bump(rows, s) ==
    [k \in DOMAIN rows \cup {s} |-> IF k = s THEN CountOf(rows, s) + 1 ELSE rows[k]]

\* C10: for a fetched message without From, FROM and Return-Path header,
\* increment_sender_mails returns Ok having raised the row of the empty
\* string by one, and the commit adds the id to seen_mails, raises the
\* committed row of the empty string by one and goes on with the pass.
C10_MissingHeader ==
    [][(IsSome(message) /\ NoSenderHeader(Unwrap(message))) =>
          /\ (pc = "increment" /\ pc' \notin {"main_loop", "crashed"})
             => /\ pc' = "commit"
                /\ Unwrap(tx').seen_mails = Unwrap(tx).seen_mails
                /\ Unwrap(tx').senders = Bump(Unwrap(tx).senders, <<>>)
          /\ Commits
             => /\ Unwrap(Unwrap(message).id) \notin seen_mails
                /\ seen_mails' = seen_mails \cup {Unwrap(Unwrap(message).id)}
                /\ senders' = Bump(senders, <<>>)
                /\ pc' \in {"begin", "list_next", "done"}
      ]_vars

\* a pass completed having counted two messages without a sender header
C10_Witness ==
    /\ pc = "done"
    /\ <<>> \in DOMAIN senders
    /\ senders[<<>>] = 2

\* the raw header value cleanup_sender was given and what it returned
RawIn == Unwrap(Unwrap(message).headers[1].value)
CleanOut == Unwrap(sender_value)

\* s is of the shape local@(label.)+tld: a local part of word characters,
\* hyphens and dots, labels of word characters and hyphens, a last label of
\* 2 to 4 such characters
IsAddress(s) ==
    \E a, d \in 1..Len(s) :
        /\ s[a] = "@" /\ a >= 2
        /\ \A k \in 1..(a - 1) : s[k] \in LocalChars
        /\ s[d] = "." /\ d > a + 1
        /\ Len(s) - d >= TldMin /\ Len(s) - d <= TldMax
        /\ \A k \in (d + 1)..Len(s) : s[k] \in LabelChars
        /\ \A k \in (a + 1)..(d - 1) : s[k] \in LabelChars \cup {"."}
        /\ \A k \in (a + 1)..(d - 1) : s[k] = "." => s[k + 1] # "." /\ k > a + 1

\* the position of the first "<" of s, Len(s) + 1 when it has none
FirstLt(s) == 1 + RunLenNot(s, 1, "<")

\* the places <<j, e>> of s where EMAIL_RE_1 can find its address: a piece
\* of the address shape that starts before the first "<" or right after it
\* and has no line feed after it
AddressPlaces(s) ==
    {je \in (1..Len(s)) \X (1..Len(s)) :
        /\ je[1] <= FirstLt(s) + 1
        /\ je[1] <= je[2]
        /\ IsAddress(SubSeq(s, je[1], je[2]))
        /\ \A k \in (je[2] + 1)..Len(s) : s[k] # "\n"}

\* C11 as stated: the result is the input or an address; with a "<" in the
\* input and the pattern matching, the result is the address that follows
\* a "<"; without a match the result is the input.
C11_AsStated ==
    pc = "sender_done" =>
        /\ CleanOut = RawIn \/ IsAddress(CleanOut)
        /\ (Contains(RawIn, "<") /\ AddressPlaces(RawIn) # {})
           => \E k \in 1..Len(RawIn) :
                  /\ RawIn[k] = "<"
                  /\ k + Len(CleanOut) <= Len(RawIn)
                  /\ CleanOut = SubSeq(RawIn, k + 1, k + Len(CleanOut))
        /\ (Contains(RawIn, "<") /\ AddressPlaces(RawIn) = {}) => CleanOut = RawIn

\* C11 amended: the result is the input or an address.  With a "<" in the
\* input, the result is the input when the value has no piece of the
\* address shape that starts before or right after the first "<" (with no
\* line feed after it); else it is such a piece, the one right after the
\* first "<" when one starts there, otherwise one before the first "<".
\* Without a "<" the result is always the input, untrimmed.
C11_Normalization ==
    pc = "sender_done" =>
        /\ CleanOut = RawIn \/ IsAddress(CleanOut)
        /\ Contains(RawIn, "<") =>
              IF AddressPlaces(RawIn) = {} THEN CleanOut = RawIn
              ELSE /\ \E je \in AddressPlaces(RawIn) :
                         CleanOut = SubSeq(RawIn, je[1], je[2])
                   /\ (\E je \in AddressPlaces(RawIn) : je[1] = FirstLt(RawIn) + 1)
                      => \E je \in AddressPlaces(RawIn) :
                             /\ je[1] = FirstLt(RawIn) + 1
                             /\ CleanOut = SubSeq(RawIn, je[1], je[2])
        /\ ~Contains(RawIn, "<") => CleanOut = RawIn

\* cleanup_sender returned an address it found before the "<", the value
\* having none after it
C11_Witness ==
    /\ pc = "sender_done"
    /\ Contains(RawIn, "<")
    /\ CleanOut # RawIn
    /\ \A je \in AddressPlaces(RawIn) : je[1] < FirstLt(RawIn)

\* C12: an attempt that fails keeps no page token, main starts the next
\* attempt at the first listing call, and the first listing call of every
\* attempt carries no token and returns the first page.
C12_RestartFromScratch ==
    [][/\ (pc \in Awaits /\ pc' = "main_loop") =>
              next_page_token' = None /\ messages' = <<>>
       /\ (pc = "main_loop" /\ pc' \notin {"crashed", "panicked"}) =>
              pc' = "list_first" /\ requested' = <<>> /\ handed' = <<>>
       /\ (requested = <<>> /\ requested' # <<>>) =>
              /\ pc = "list_first"
              /\ requested' = <<None>>
              /\ messages' = listing[1]
      ]_vars

\* a later attempt of a run is at the first stub of the first page although
\* a stub of the second page is already in seen_mails
C12_Witness ==
    /\ pc = "begin"
    /\ attempts >= 2
    /\ requested = <<None>>
    /\ handed = <<>>
    /\ Len(listing) >= 2
    /\ \E k \in 1..Len(listing[2]) :
           /\ IsSome(listing[2][k].id)
           /\ Unwrap(listing[2][k].id) \in seen_mails

\* the stubs of the pages the attempt has requested so far
Fetched == Flatten(SubSeq(listing, 1, Len(requested)))

\* the process is between pool.begin() and tx.commit()
InTx == pc \in {"seen_mail", "get", "mark_seen", "increment", "commit"}

\* C13: within an attempt the pages are requested in token order, the stubs
\* handed to the for loop are a prefix of the stubs of the requested pages,
\* in order; a transaction is open exactly between begin and commit (so at
\* most one, and none while a listing call is pending); every stub handed
\* before the current one has its id in seen_mails; and a listing call is
\* made only when every stub of the requested pages has been handed.
C13_Sequential ==
    /\ IsSome(tx) <=> InTx
    /\ (pc \in {"list_first", "list_next", "begin"} \/ InTx) =>
           /\ \A k \in 1..Len(requested) :
                  requested[k] = IF k = 1 THEN None ELSE Some(k)
           /\ handed \o (IF InTx THEN Tail(messages) ELSE messages) = Fetched
           /\ InTx => handed[Len(handed)] = Head(messages)
           /\ \A k \in 1..(Len(handed) - (IF InTx THEN 1 ELSE 0)) :
                  /\ IsSome(handed[k].id)
                  /\ Unwrap(handed[k].id) \in seen_mails
    /\ pc \in {"list_first", "list_next"} => messages = <<>> /\ handed = Fetched

\* the second page is about to be requested after two stubs of the first
C13_Witness ==
    /\ pc = "list_next"
    /\ Len(requested) = 1
    /\ Len(handed) = 2
    /\ handed[1] # handed[2]

\* the step is an awaited call returning Err
Fails ==
    \/ pc \in Awaits /\ pc' = "main_loop"
    \/ /\ pc \in {"seen_mail", "get", "mark_seen", "increment"}
       /\ IsSome(Head(messages).id)
       /\ tx' = None
       /\ pc' \notin {"crashed", "panicked"}

\* C14: when an awaited call returns Err the attempt ends there: control is
\* back in main with no stub left to handle and no transaction, the tables
\* are unchanged (nothing of the current stub is committed, the rows of the
\* stubs before it stay), and only main's next iteration lists again.
C14_ErrorAborts ==
    [][Fails =>
          /\ pc' = "main_loop"
          /\ messages' = <<>>
          /\ tx' = None
          /\ message' = None
          /\ UNCHANGED <<stores, commits, attempts>>
          /\ \A k \in 1..(Len(handed) - (IF InTx THEN 1 ELSE 0)) :
                 Unwrap(handed[k].id) \in seen_mails'
          /\ (InTx /\ Unwrap(Head(messages).id) \notin seen_mails) =>
                 Unwrap(Head(messages).id) \notin seen_mails'
      ]_vars

\* the first attempt failed at the second of three distinct stubs
C14_Witness ==
    /\ pc = "main_loop"
    /\ attempts = 1
    /\ Cardinality(seen_mails) = 1
    /\ Cardinality(ListedIds) = 3

\* the for loop is at a stub without id
AtMissingId == pc = "seen_mail" /\ ~IsSome(Head(messages).id)

\* C15: at a stub without id the only step of the process is the panic of
\* expect: the tables are unchanged, the transaction is gone, and from the
\* panic main makes no further attempt (only a new run leaves it).
C15_MissingIdFatal ==
    [][/\ (AtMissingId /\ pc' # "crashed") =>
              /\ pc' = "panicked"
              /\ tx' = None
              /\ UNCHANGED <<stores, commits, attempts, handed>>
       /\ pc = "panicked" => pc' = "main_loop" /\ attempts' = 0
      ]_vars

\* the process panicked at a stub without id after it had committed a message
C15_Witness ==
    /\ pc = "panicked"
    /\ handed # <<>>
    /\ ~IsSome(handed[Len(handed)].id)
    /\ seen_mails # {}

\* C16: mark_seen is called only with an id that is neither in the
\* transaction's view of seen_mails nor in the committed table.
C16_NoCollision ==
    pc = "mark_seen" =>
        /\ Unwrap(Unwrap(message).id) \notin Unwrap(tx).seen_mails
        /\ Unwrap(Unwrap(message).id) \notin seen_mails
        /\ Unwrap(message).id = Head(messages).id

\* the id of the current stub was listed earlier in the same attempt and
\* the stub is skipped
C16_Witness ==
    /\ pc = "commit"
    /\ message = None
    /\ Len(handed) >= 2
    /\ \E k \in 1..(Len(handed) - 1) : handed[k] = handed[Len(handed)]

\* the sum of mails_sent over the rows of the senders whose names are in S
RECURSIVE SumSent(_, _)
SumSent(rows, S) ==
    IF S = {} THEN 0
    ELSE LET s == CHOOSE x \in S : TRUE
         IN  rows[s] + SumSent(rows, S \ {s})

\* C17: in every committed state the mails_sent of all senders rows add up
\* to the number of seen_mails rows, and every senders row has mails_sent
\* of at least 1.
C17_Conservation ==
    /\ SumSent(senders, DOMAIN senders) = Cardinality(seen_mails)
    /\ \A s \in DOMAIN senders : senders[s] >= 1

\* three messages of two senders are counted, after an interrupted run
C17_Witness ==
    /\ Cardinality(seen_mails) = 3
    /\ Cardinality(DOMAIN senders) = 2
    /\ interrupted # {}

\* C18: no step removes an id from seen_mails or a row from senders or
\* lowers a mails_sent; a step that changes the tables adds exactly one id
\* and raises exactly one sender's mails_sent by exactly 1, from no row to a
\* row of 1 when the sender is new.
C18_Monotone ==
    [][/\ seen_mails \subseteq seen_mails'
       /\ DOMAIN senders \subseteq DOMAIN senders'
       /\ \A s \in DOMAIN senders : senders'[s] >= senders[s]
       /\ stores' # stores =>
              /\ Commits
              /\ Cardinality(seen_mails' \ seen_mails) = 1
              /\ \E s \in DOMAIN senders' :
                     /\ senders'[s] = CountOf(senders, s) + 1
                     /\ \A r \in DOMAIN senders' \ {s} :
                            r \in DOMAIN senders /\ senders'[r] = senders[r]
      ]_vars

\* a row was created at 1 and raised to 2 beside another sender's row
C18_Witness ==
    /\ pc = "begin"
    /\ Cardinality(DOMAIN senders) = 2
    /\ \E s \in DOMAIN senders : senders[s] = 2

\* every listed stub has an id
AllHaveIds ==
    LET all == Flatten(listing) IN \A k \in 1..Len(all) : IsSome(all[k].id)

\* the header get_sender selects has a value in every listed message
AllHaveSender == \A i \in ListedIds : ~get_sender(get_message(i)).panic

\* work returned Ok, main broke out of its loop, every listed id is seen
Finished == pc = "done" /\ ListedIds \subseteq seen_mails

====
